---- MODULE Spec2Model ----
(***************************************************************************)
(* Model of the "Top 2000 Global Companies" Streamlit dashboard            *)
(* (src/app.py; src/unnamed/part_000 is the same script with another       *)
(* docstring).  The script is re-executed from top to bottom on the first  *)
(* page load and after every widget interaction; one such execution is one *)
(* action.  A cell of the table is <<v>> when a value is present and <<>>  *)
(* when it is missing (NaN); None is <<>> as well.  Numbers are integers.  *)
(***************************************************************************)
EXTENDS Integers, Sequences, FiniteSets, TLC

VARIABLES
    source,          \* the CSV file "Top2000_Companies_Globally_Fixed.csv"
    cache,           \* st.cache_data's entry for load_data(): <<>> or <<rows>>
    reads,           \* number of pd.read_csv calls made by this process
    tieOrder,        \* how this build's default argsort orders equal keys
    pc,              \* "start", "rendered", "failed" (script); "loaded", "returned" (a single call)
    err,             \* the exception that ended the last script run, "" if none
    df,              \* the frame bound to df at line 31
    dfObj,           \* which object df is: "read" (built by read_csv) or "copy"
    continent,       \* sidebar selectbox value
    metric,          \* sidebar selectbox value
    top_n,           \* sidebar slider value
    filtered_sorted, \* the ranked frame of line 41
    x_axis,          \* scatter selectbox value
    y_axis,          \* scatter selectbox value
    relationship,    \* corr of describe_relationship, as formatted by :.2f
    map_df,          \* the dropna projection of line 64
    cols,            \* argument of the last safe_get_columns call
    col_means,       \* result of the last safe_get_columns call
    memo             \* an earlier ranking, remembered to compare with

vars == <<source, cache, reads, tieOrder, pc, err, df, dfObj, continent, metric,
          top_n, filtered_sorted, x_axis, y_axis, relationship, map_df, cols,
          col_means, memo>>

----------------------------------------------------------------------------
(* Bounds of the model *)

\* longest dataset handed to a single ranking call
MaxRows == 7
\* longest dataset handed to a single correlation or column-means call
MaxStatRows == 4
\* longest dataset the whole script is run on
MaxAppRows == 2
\* read_csv calls after which a process whose load keeps failing is left alone
MaxReads == 3
\* longest column list handed to safe_get_columns
MaxCols == 2

(* Program constants: st.sidebar.slider("Top N Companies", 5, 50, 10) *)
MinTopN == 5
MaxTopN == 50
DefaultTopN == 10

----------------------------------------------------------------------------
(* The table *)

None == <<>>
NaN == <<>>
Present(cell) == cell # NaN

MetricOptions ==
    <<"Sales ($billion)", "Profits ($billion)", "Assets ($billion)",
      "Market Value ($billion)">>
XOptions == <<"Sales ($billion)", "Assets ($billion)", "Profits ($billion)">>
YOptions == <<"Profits ($billion)", "Market Value ($billion)", "Sales ($billion)">>
MapColumns ==
    <<"Company", "Latitude_final", "Longitude_final", "Market Value ($billion)">>

Range(s) == {s[i] : i \in DOMAIN s}

NumericColumns ==
    Range(MetricOptions) \cup {"Latitude_final", "Longitude_final"}
Columns == {"Company", "Continent"} \cup NumericColumns

Row(company, cont, sales, profits, assets, value, lat, lon) ==
    [c \in Columns |->
        CASE c = "Company" -> <<company>>
          [] c = "Continent" -> <<cont>>
          [] c = "Sales ($billion)" -> <<sales>>
          [] c = "Profits ($billion)" -> <<profits>>
          [] c = "Assets ($billion)" -> <<assets>>
          [] c = "Market Value ($billion)" -> <<value>>
          [] c = "Latitude_final" -> lat
          [] c = "Longitude_final" -> lon]

\* Rows the datasets are made of: the metrics are always present and
\* non-negative, the coordinates may be missing.
RowA == Row("A", "Asia", 1, 1, 0, 2, <<1>>, <<1>>)
RowB == Row("B", "Asia", 2, 1, 3, 2, NaN, <<2>>)
RowC == Row("C", "Europe", 3, 2, 3, 1, <<2>>, NaN)
RowD == Row("D", "Europe", 0, 3, 1, 2, <<3>>, <<1>>)

RankPool == {RowA, RowB, RowC}
StatPool == {RowA, RowB, RowC, RowD}

SeqsUpTo(S, n) == UNION {[1..k -> S] : k \in 0..n}

\* A continent no row of the pools has
Oceania == "Oceania"

----------------------------------------------------------------------------
(* pandas *)

\* pd.read_csv: a frame is a sequence of rows, each with its index label
\* (RangeIndex, from 0).
Frame(rows) == [k \in 1..Len(rows) |-> [label |-> k - 1, row |-> rows[k]]]

Reverse(s) == [k \in 1..Len(s) |-> s[Len(s) + 1 - k]]

RECURSIVE SelectSeq2(_, _)
\* the elements of s at the positions in keep, in order
SelectSeq2(s, keep) ==
    IF s = <<>> THEN <<>>
    ELSE LET n == Len(s)
             front == SelectSeq2(SubSeq(s, 1, n - 1), keep)
         IN  IF n \in keep THEN Append(front, s[n]) ELSE front

\* frame[frame[col] == value]: boolean indexing; NaN and None equal nothing
BoolIndexEq(frame, col, value) ==
    SelectSeq2(frame, {k \in DOMAIN frame :
                          /\ Present(value)
                          /\ Present(frame[k].row[col])
                          /\ frame[k].row[col] = value})

\* ndarray.argsort(kind="quicksort"), ascending, over present keys: position
\* a comes before position b.  Equal keys keep their input order when the
\* sort happens to be stable and come out reversed otherwise.
ArgsortBefore(keys, tie, a, b) ==
    \/ keys[a][1] < keys[b][1]
    \/ /\ keys[a][1] = keys[b][1]
       /\ IF tie = "input" THEN a < b ELSE a > b

RECURSIVE ArgsortOf(_, _, _)
ArgsortOf(keys, tie, S) ==
    IF S = {} THEN <<>>
    ELSE LET first == CHOOSE a \in S :
                          \A b \in S \ {a} : ArgsortBefore(keys, tie, a, b)
         IN  <<first>> \o ArgsortOf(keys, tie, S \ {first})

Argsort(keys, tie) == ArgsortOf(keys, tie, DOMAIN keys)

\* pandas.core.sorting.nargsort(ascending=False, na_position="last"): the
\* present keys are reversed, argsorted ascending and reversed again; the
\* missing ones follow in their original order.
Nargsort(keys, tie) ==
    LET idx == [k \in DOMAIN keys |-> k]
        non_nan_idx == Reverse(SelectSeq2(idx, {k \in DOMAIN keys : Present(keys[k])}))
        nan_idx == SelectSeq2(idx, {k \in DOMAIN keys : ~Present(keys[k])})
        non_nans == [k \in DOMAIN non_nan_idx |-> keys[non_nan_idx[k]]]
        order == Argsort(non_nans, tie)
        indexer == Reverse([k \in DOMAIN order |-> non_nan_idx[order[k]]])
    IN  indexer \o nan_idx

\* frame.sort_values(by=by), were ascending=False left out
SortValuesDescMutAscending(frame, by, tie) ==
    LET keys == [k \in DOMAIN frame |-> frame[k].row[by]]
        indexer == Reverse(Nargsort(keys, tie))
    IN  [k \in DOMAIN indexer |-> frame[indexer[k]]]

\* frame.sort_values(by=by, ascending=False): a new frame
SortValuesDesc(frame, by, tie) ==
    LET keys == [k \in DOMAIN frame |-> frame[k].row[by]]
        indexer == Nargsort(keys, tie)
    IN  [k \in DOMAIN indexer |-> frame[indexer[k]]]

\* frame.head(n + 1)
HeadNMutOffByOne(frame, n) ==
    SubSeq(frame, 1, IF n + 1 < Len(frame) THEN n + 1 ELSE Len(frame))

\* frame.tail(n)
HeadNMutTail(frame, n) ==
    SubSeq(frame, IF n < Len(frame) THEN Len(frame) - n + 1 ELSE 1, Len(frame))

\* frame.head(n), n >= 0
HeadN(frame, n) == SubSeq(frame, 1, IF n < Len(frame) THEN n ELSE Len(frame))

\* lines 40-41: filter on the continent, sort by the metric, keep the top n
Filtered(frame, cont) == BoolIndexEq(frame, "Continent", cont)

FilteredSorted(frame, tie, cont, by, n) ==
    HeadN(SortValuesDesc(Filtered(frame, cont), by, tie), n)

\* Series.unique(): the values in order of first appearance
RECURSIVE Unique(_)
Unique(s) ==
    IF s = <<>> THEN <<>>
    ELSE LET front == Unique(SubSeq(s, 1, Len(s) - 1))
         IN  IF s[Len(s)] \in Range(front) THEN front ELSE Append(front, s[Len(s)])

Column(frame, col) == [k \in DOMAIN frame |-> frame[k].row[col]]

\* frame[columns].dropna(): a new frame of the rows with every cell present
Dropna(frame, columns) ==
    LET kept == SelectSeq2(frame, {k \in DOMAIN frame :
                    \A c \in Range(columns) : Present(frame[k].row[c])})
    IN  [k \in DOMAIN kept |->
            [label |-> kept[k].label,
             row |-> [c \in Range(columns) |-> kept[k].row[c]]]]

RECURSIVE Sum(_)
Sum(s) == IF s = <<>> THEN 0 ELSE s[Len(s)] + Sum(SubSeq(s, 1, Len(s) - 1))

Abs(i) == IF i < 0 THEN -i ELSE i

RECURSIVE GCD(_, _)
GCD(a, b) == IF b = 0 THEN a ELSE GCD(b, a % b)

\* a float that is the quotient of two integers, in lowest terms
Ratio(num, den) ==
    LET g == GCD(Abs(num), den) IN [num |-> num \div g, den |-> den \div g]

\* Series.mean(): the mean of the present values, NaN when there is none
Mean(series) ==
    LET present == SelectSeq(series, Present)
        values == [k \in DOMAIN present |-> present[k][1]]
    IN  IF values = <<>> THEN NaN ELSE <<Ratio(Sum(values), Len(values))>>

RECURSIVE ISqrtIn(_, _, _)
\* the largest s in lo..hi with s * s <= n
ISqrtIn(n, lo, hi) ==
    IF lo = hi THEN lo
    ELSE LET mid == (lo + hi + 1) \div 2
         IN  IF mid * mid <= n THEN ISqrtIn(n, mid, hi) ELSE ISqrtIn(n, lo, mid - 1)

ISqrt(n) == ISqrtIn(n, 0, n)

\* n * sum(v * v) - sum(v) ^ 2: n ^ 2 times the variance of v
ScaledVar(v) ==
    Len(v) * Sum([k \in DOMAIN v |-> v[k] * v[k]]) - Sum(v) * Sum(v)

ScaledCov(a, b) ==
    Len(a) * Sum([k \in DOMAIN a |-> a[k] * b[k]]) - Sum(a) * Sum(b)

\* f"{corr:.2f}" of cov / sqrt(var_a * var_b), clipped to [-1, 1] as
\* np.corrcoef does: the number of hundredths
Hundredths(cov, var_a, var_b) ==
    LET h == (ISqrt((40000 * cov * cov) \div (var_a * var_b)) + 1) \div 2
        clipped == IF h > 100 THEN 100 ELSE h
    IN  IF cov < 0 THEN -clipped ELSE clipped

\* Series.corr (Pearson): over the rows where both cells are present; NaN
\* with fewer than two such rows (0 / 0 degrees of freedom) and when a
\* variance is zero (0 / 0)
Corr(sx, sy) ==
    LET both == {k \in DOMAIN sx : Present(sx[k]) /\ Present(sy[k])}
        px == SelectSeq2(sx, both)
        py == SelectSeq2(sy, both)
        a == [k \in DOMAIN px |-> px[k][1]]
        b == [k \in DOMAIN py |-> py[k][1]]
    IN  IF Len(a) < 2 THEN NaN
        ELSE IF ScaledVar(a) = 0 \/ ScaledVar(b) = 0 THEN NaN
        ELSE <<Hundredths(ScaledCov(a, b), ScaledVar(a), ScaledVar(b))>>

\* describe_relationship, were an undefined coefficient reported as 0
DescribeRelationshipMutNanAsZero(frame, x, y) ==
    LET corr == Corr(Column(frame, x), Column(frame, y))
    IN  IF corr = NaN THEN <<0>> ELSE corr

\* lines 99-102: describe_relationship(x, y), the number in the sentence
DescribeRelationship(frame, x, y) == Corr(Column(frame, x), Column(frame, y))

\* line 113: [df[col].mean() for col in cols]; df[col] raises KeyError for
\* a column the frame does not have, which ends the comprehension
RECURSIVE MeansOrRaise(_, _)
MeansOrRaise(frame, cs) ==
    IF cs = <<>> THEN [raised |-> FALSE, value |-> <<>>]
    ELSE LET front == MeansOrRaise(frame, SubSeq(cs, 1, Len(cs) - 1))
             col == cs[Len(cs)]
         IN  IF front.raised \/ col \notin Columns
                THEN [raised |-> TRUE, value |-> <<>>]
                ELSE [raised |-> FALSE,
                      value |-> Append(front.value, Mean(Column(frame, col)))]

Zero == <<Ratio(0, 1)>>

\* safe_get_columns, were the KeyError caught column by column
SafeGetColumnsMutPerColumn(frame, cs) ==
    [k \in DOMAIN cs |->
        IF cs[k] \in Columns THEN Mean(Column(frame, cs[k])) ELSE Zero]

\* lines 111-115: safe_get_columns(cols)
SafeGetColumns(frame, cs) ==
    LET tried == MeansOrRaise(frame, cs)
    IN  IF tried.raised THEN [k \in DOMAIN cs |-> Zero] ELSE tried.value

----------------------------------------------------------------------------
(* Streamlit *)

\* read_csv, were a table without rows refused
ReadCsvMutRejectNoRows(src) ==
    CASE src.kind = "missing" -> [err |-> "FileNotFoundError", frame |-> <<>>]
      [] src.kind = "empty" -> [err |-> "EmptyDataError", frame |-> <<>>]
      [] src.kind = "malformed" -> [err |-> "ParserError", frame |-> <<>>]
      [] src.kind = "table" /\ src.rows = <<>> ->
            [err |-> "EmptyDataError", frame |-> <<>>]
      [] OTHER -> [err |-> "", frame |-> Frame(src.rows)]

\* pd.read_csv("Top2000_Companies_Globally_Fixed.csv"): a file that is not
\* there, has no bytes or cannot be tokenized raises; a file with the header
\* and any number of rows, none included, gives a frame.
ReadCsv(src) ==
    CASE src.kind = "missing" -> [err |-> "FileNotFoundError", frame |-> <<>>]
      [] src.kind = "empty" -> [err |-> "EmptyDataError", frame |-> <<>>]
      [] src.kind = "malformed" -> [err |-> "ParserError", frame |-> <<>>]
      [] src.kind = "table" -> [err |-> "", frame |-> Frame(src.rows)]

\* a cache that hands out the one stored object, which the last run sorted
\* in place
CacheHitMutSortedInPlace(entry) ==
    filtered_sorted \o
    SelectSeq2(entry[1], {k \in DOMAIN entry[1] :
        \A j \in DOMAIN filtered_sorted :
            filtered_sorted[j].label # entry[1][k].label})

\* @st.cache_data on a hit: the stored value unpickled, an equal frame in a
\* new object
CacheHit(entry) == entry[1]

\* load_data without @st.cache_data
CachedMutNever(entry) == FALSE

\* @st.cache_data: is there an entry to answer the call from
Cached(entry) == entry # <<>>

\* lines 26-31: df = load_data() under @st.cache_data.  A miss runs the
\* function, stores its value and returns that very object; a call that
\* raises stores nothing.
LoadData(entry, src) ==
    IF Cached(entry)
        THEN [err |-> "", frame |-> CacheHit(entry), obj |-> "copy",
              entry |-> entry, read |-> 0]
        ELSE LET got == ReadCsv(src)
             IN  [err |-> got.err, frame |-> got.frame, obj |-> "read",
                  entry |-> IF got.err = "" THEN <<got.frame>> ELSE entry,
                  read |-> 1]

\* st.selectbox(label, options): the option the user chose, the first option
\* before any choice, None without options
Selectbox(options, chosen) ==
    IF Present(chosen) /\ chosen[1] \in Range(options) THEN chosen
    ELSE IF options = <<>> THEN None ELSE <<options[1]>>

\* st.slider(label, min_value, max_value)
SliderMutNoDefault(lo, hi, value, chosen) ==
    IF Present(chosen) /\ chosen[1] \in lo..hi THEN chosen ELSE <<lo>>

\* st.slider(label, min_value, max_value, value)
Slider(lo, hi, value, chosen) ==
    IF Present(chosen) /\ chosen[1] \in lo..hi THEN chosen ELSE <<value>>

ContinentOptions(frame) ==
    LET present == SelectSeq(Unique(Column(frame, "Continent")), Present)
    IN  [k \in DOMAIN present |-> present[k][1]]

StatColumns == <<"Sales ($billion)", "Profits ($billion)">>

----------------------------------------------------------------------------
(* One execution of the script, lines 25-118, with the widget state the
   browser sends.  memo is a history variable and no part of the program:
   remember == TRUE keeps in it the ranking of the run before this one. *)
Script(wc, wm, wn, wx, wy, remember) ==
    LET load == LoadData(cache, source)
        d == load.frame
        c == Selectbox(ContinentOptions(d), wc)
        m == Selectbox(MetricOptions, wm)
        n == Slider(MinTopN, MaxTopN, DefaultTopN, wn)
        x == Selectbox(XOptions, wx)
        y == Selectbox(YOptions, wy)
        ranked == FilteredSorted(d, tieOrder, c, m[1], n[1])
    IN  /\ reads' = reads + load.read
        /\ cache' = load.entry
        /\ err' = load.err
        /\ UNCHANGED <<source, tieOrder>>
        /\ IF load.err # ""
              THEN /\ pc' = "failed"
                   /\ UNCHANGED <<df, dfObj, continent, metric, top_n,
                                  filtered_sorted, x_axis, y_axis, relationship,
                                  map_df, cols, col_means, memo>>
              ELSE /\ pc' = "rendered"
                   /\ df' = d
                   /\ dfObj' = load.obj
                   /\ continent' = c
                   /\ metric' = m
                   /\ top_n' = n
                   /\ filtered_sorted' = ranked
                   /\ x_axis' = x
                   /\ y_axis' = y
                   /\ map_df' = Dropna(d, MapColumns)
                   /\ relationship' = DescribeRelationship(d, x[1], y[1])
                   /\ cols' = StatColumns
                   /\ col_means' = SafeGetColumns(d, StatColumns)
                   /\ memo' = IF remember
                                 THEN <<[continent |-> continent,
                                         metric |-> metric, top_n |-> top_n,
                                         ranked |-> filtered_sorted]>>
                                 ELSE memo

\* the page is opened
FirstRun ==
    /\ pc = "start"
    /\ Script(None, None, None, None, None, FALSE)

\* whether the run about to start may keep the last ranking in memo: once,
\* and only where memo starts empty
Remember == IF memo = <<>> /\ pc = "rendered" THEN BOOLEAN ELSE {FALSE}

\* "Rerun" in the app menu, or the page is reloaded in the same session
Rerun ==
    /\ pc \in {"rendered", "failed"}
    /\ pc = "failed" => reads < MaxReads
    /\ \E remember \in Remember :
           Script(continent, metric, top_n, x_axis, y_axis, remember)

TopNChoices == {MinTopN, DefaultTopN, MaxTopN}

SelectContinent ==
    /\ pc = "rendered"
    /\ \E c \in Range(ContinentOptions(df)), remember \in Remember :
           /\ <<c>> # continent
           /\ Script(<<c>>, metric, top_n, x_axis, y_axis, remember)

SelectMetric ==
    /\ pc = "rendered"
    /\ \E m \in Range(MetricOptions), remember \in Remember :
           /\ <<m>> # metric
           /\ Script(continent, <<m>>, top_n, x_axis, y_axis, remember)

SlideTopN ==
    /\ pc = "rendered"
    /\ \E n \in TopNChoices, remember \in Remember :
           /\ <<n>> # top_n
           /\ Script(continent, metric, <<n>>, x_axis, y_axis, remember)

SelectXAxis ==
    /\ pc = "rendered"
    /\ \E x \in Range(XOptions), remember \in Remember :
           /\ <<x>> # x_axis
           /\ Script(continent, metric, top_n, <<x>>, y_axis, remember)

SelectYAxis ==
    /\ pc = "rendered"
    /\ \E y \in Range(YOptions), remember \in Remember :
           /\ <<y>> # y_axis
           /\ Script(continent, metric, top_n, x_axis, <<y>>, remember)

Sources(pool, n) ==
    {[kind |-> k, rows |-> <<>>] : k \in {"missing", "empty", "malformed"}}
    \cup {[kind |-> "table", rows |-> rows] : rows \in SeqsUpTo(pool, n)}

TieOrders == {"input", "reversed"}

\* a memo that is never filled and that no run's parameters equal
Unarmed == <<[continent |-> None, metric |-> None, top_n |-> None, ranked |-> <<>>]>>

Start(sources, m) ==
    /\ source \in sources
    /\ tieOrder \in TieOrders
    /\ cache = <<>>
    /\ reads = 0
    /\ pc = "start"
    /\ err = ""
    /\ df = <<>>
    /\ dfObj = "none"
    /\ continent = None
    /\ metric = None
    /\ top_n = None
    /\ filtered_sorted = <<>>
    /\ x_axis = None
    /\ y_axis = None
    /\ relationship = NaN
    /\ map_df = <<>>
    /\ cols = <<>>
    /\ col_means = <<>>
    /\ memo = m

Init == Start(Sources(RankPool, MaxAppRows), Unarmed)

Next ==
    \/ FirstRun
    \/ Rerun
    \/ SelectContinent
    \/ SelectMetric
    \/ SlideTopN
    \/ SelectXAxis
    \/ SelectYAxis

Spec == Init /\ [][Next]_vars

\* The script on tables in which rows repeat, with memo in use
RepeatPool == {RowA, RowC}
InitRepeat ==
    Start({[kind |-> "table", rows |-> rows] :
              rows \in SeqsUpTo(RepeatPool, MaxAppRows)}, <<>>)
SpecRepeat == InitRepeat /\ [][Next]_vars

----------------------------------------------------------------------------
(* Single calls of the three query operations on a frame as loaded, with
   arguments of any value *)

Loaded(pool, n) ==
    /\ source \in {[kind |-> "table", rows |-> rows] : rows \in SeqsUpTo(pool, n)}
    /\ tieOrder \in TieOrders
    /\ cache = <<Frame(source.rows)>>
    /\ reads = 1
    /\ pc = "loaded"
    /\ err = ""
    /\ df = Frame(source.rows)
    /\ dfObj = "read"
    /\ continent = None
    /\ metric = None
    /\ top_n = None
    /\ filtered_sorted = <<>>
    /\ x_axis = None
    /\ y_axis = None
    /\ relationship = NaN
    /\ map_df = <<>>
    /\ cols = <<>>
    /\ col_means = <<>>
    /\ memo = Unarmed

CallFilteredSorted ==
    /\ pc = "loaded"
    /\ \E c \in {r["Continent"][1] : r \in RankPool} \cup {Oceania},
          m \in Range(MetricOptions), n \in TopNChoices :
           /\ continent' = <<c>>
           /\ metric' = <<m>>
           /\ top_n' = <<n>>
           /\ filtered_sorted' = FilteredSorted(df, tieOrder, <<c>>, m, n)
    /\ pc' = "returned"
    /\ UNCHANGED <<source, cache, reads, tieOrder, err, df, dfObj, x_axis,
                   y_axis, relationship, map_df, cols, col_means, memo>>

InitRank == Loaded(RankPool, MaxRows)
SpecRank == InitRank /\ [][CallFilteredSorted]_vars

CallDescribeRelationship ==
    /\ pc = "loaded"
    /\ \E x \in NumericColumns, y \in NumericColumns :
           /\ x_axis' = <<x>>
           /\ y_axis' = <<y>>
           /\ relationship' = DescribeRelationship(df, x, y)
    /\ pc' = "returned"
    /\ UNCHANGED <<source, cache, reads, tieOrder, err, df, dfObj, continent,
                   metric, top_n, filtered_sorted, map_df, cols, col_means, memo>>

InitStat == Loaded(StatPool, MaxStatRows)
SpecCorr == InitStat /\ [][CallDescribeRelationship]_vars

NoSuchColumn == "NoSuchColumn"

CallSafeGetColumns ==
    /\ pc = "loaded"
    /\ \E cs \in SeqsUpTo(NumericColumns \cup {NoSuchColumn}, MaxCols) :
           /\ cols' = cs
           /\ col_means' = SafeGetColumns(df, cs)
    /\ pc' = "returned"
    /\ UNCHANGED <<source, cache, reads, tieOrder, err, df, dfObj, continent,
                   metric, top_n, filtered_sorted, x_axis, y_axis, relationship,
                   map_df, memo>>

SpecMeans == InitStat /\ [][CallSafeGetColumns]_vars

----------------------------------------------------------------------------
(* Properties of a single ranking call (SpecRank) *)

\* the positions of the frame whose Continent is the selected one
Matching == {k \in DOMAIN df : df[k].row["Continent"] = continent}

MetricOf(r) == r.row[metric[1]][1]

Labels(frame) == {frame[k].label : k \in DOMAIN frame}

\* the matching rows the truncation left out
Dropped == {k \in Matching : df[k].label \notin Labels(filtered_sorted)}

\* C1: the ranked result has at most topN rows, every row's Continent is the
\* selected continent, and each row's metric value is greater than or equal
\* to that of the row after it.
C1_AtMostTopNOfContinentDescending ==
    pc = "returned" =>
        /\ Len(filtered_sorted) <= top_n[1]
        /\ \A k \in DOMAIN filtered_sorted :
               filtered_sorted[k].row["Continent"] = continent
        /\ \A k \in 1..(Len(filtered_sorted) - 1) :
               MetricOf(filtered_sorted[k]) >= MetricOf(filtered_sorted[k + 1])

\* a call that filtered rows out, reordered the rest and truncated them
C1_Witness ==
    /\ pc = "returned"
    /\ Cardinality(Matching) > top_n[1]
    /\ Cardinality(Matching) < Len(df)
    /\ Len(filtered_sorted) = top_n[1]
    /\ MetricOf(filtered_sorted[1]) > MetricOf(filtered_sorted[top_n[1]])
    /\ filtered_sorted[1].label > filtered_sorted[top_n[1]].label

\* C2: the ranked result has exactly min(topN, number of rows of the selected
\* continent) rows: all of them when topN exceeds their number, none when no
\* row matches.
C2_LengthIsMinOfTopNAndMatches ==
    pc = "returned" =>
        Len(filtered_sorted) =
            IF top_n[1] < Cardinality(Matching) THEN top_n[1]
            ELSE Cardinality(Matching)

\* topN = 5 with 3 matching rows among more returns exactly 3
C2_Witness ==
    /\ pc = "returned"
    /\ top_n[1] = 5
    /\ Cardinality(Matching) = 3
    /\ Len(df) > 3
    /\ Len(filtered_sorted) = 3

\* rows of equal metric value are in dataset order, and those the truncation
\* keeps come before those it drops
StableTies ==
    /\ \A j, k \in DOMAIN filtered_sorted :
           (j < k /\ MetricOf(filtered_sorted[j]) = MetricOf(filtered_sorted[k]))
               => filtered_sorted[j].label < filtered_sorted[k].label
    /\ \A k \in DOMAIN filtered_sorted, d \in Dropped :
           MetricOf(filtered_sorted[k]) = MetricOf(df[d])
               => filtered_sorted[k].label < df[d].label

\* C3 as claimed: the descending sort is stable, also across the truncation.
C3_StableSort == pc = "returned" => StableTies

\* C3 as amended: the ranked rows are distinct rows of the selected
\* continent, none of them has a smaller metric value than a row that was
\* left out, and rows of equal metric value are in dataset order only when
\* the underlying argsort happens to keep equal keys in input order.
C3_TopRowsTiesInArgsortOrder ==
    pc = "returned" =>
        /\ \A k \in DOMAIN filtered_sorted :
               \E i \in Matching : df[i] = filtered_sorted[k]
        /\ \A j, k \in DOMAIN filtered_sorted :
               j # k => filtered_sorted[j].label # filtered_sorted[k].label
        /\ \A k \in DOMAIN filtered_sorted, d \in Dropped :
               MetricOf(filtered_sorted[k]) >= MetricOf(df[d])
        /\ tieOrder = "input" => StableTies

\* the truncation cuts through rows of equal metric value and keeps a later
\* row of the dataset while dropping an earlier one
C3_Witness ==
    /\ pc = "returned"
    /\ \E k \in DOMAIN filtered_sorted, d \in Dropped :
           /\ MetricOf(filtered_sorted[k]) = MetricOf(df[d])
           /\ filtered_sorted[k].label > df[d].label

----------------------------------------------------------------------------
(* Properties of a single safe_get_columns call (SpecMeans) *)

PresentValues(col) ==
    LET present == SelectSeq(Column(df, col), Present)
    IN  [k \in DOMAIN present |-> present[k][1]]

\* C4: safe_get_columns returns one entry per requested column and never
\* raises for a missing column: the mean of each column, in request order,
\* when every requested column exists, and 0 for every requested column when
\* at least one does not.
C4_MeansOrAllZero ==
    pc = "returned" =>
        /\ Len(col_means) = Len(cols)
        /\ IF \E k \in DOMAIN cols : cols[k] \notin Columns
              THEN \A k \in DOMAIN cols : col_means[k] = Zero
              ELSE \A k \in DOMAIN cols :
                       LET values == PresentValues(cols[k])
                       IN  IF values = <<>> THEN col_means[k] = NaN
                           ELSE /\ Present(col_means[k])
                                /\ col_means[k][1].den > 0
                                /\ col_means[k][1].num * Len(values)
                                       = col_means[k][1].den * Sum(values)

\* a column with a non-zero mean is asked for together with a missing one
C4_Witness ==
    /\ pc = "returned"
    /\ cols = <<"Sales ($billion)", NoSuchColumn>>
    /\ Sum(PresentValues("Sales ($billion)")) > 0
    /\ col_means = <<Zero, Zero>>

----------------------------------------------------------------------------
(* Properties of a single describe_relationship call (SpecCorr) *)

\* the positions with a value in both columns
Paired == {k \in DOMAIN df :
              Present(df[k].row[x_axis[1]]) /\ Present(df[k].row[y_axis[1]])}

PairedValues(col) == {df[k].row[col][1] : k \in Paired}

----------------------------------------------------------------------------
(* Properties of the script under reruns (Spec, SpecRepeat) *)

Ran == pc \in {"rendered", "failed"}

\* C6 as claimed: the source is read at most once, and every call returns
\* the dataset object the first call returned.
C6_ReadAtMostOnceSameInstance ==
    /\ reads <= 1
    /\ pc = "rendered" => dfObj = "read"

\* C6 as amended: every call reads the source until one succeeds; from then
\* on the cache entry stays as it is, no call reads the source again, and
\* each later call returns a new copy equal to the dataset first loaded.
C6_NoReadAfterSuccessEqualCopy ==
    /\ [](Ran => reads >= 1)
    /\ [](cache # <<>> => reads = 1 /\ cache = <<Frame(source.rows)>>)
    /\ [][cache # <<>> =>
             /\ reads' = reads
             /\ cache' = cache
             /\ df' = cache[1]
             /\ dfObj' = "copy"]_vars
    /\ [][cache' = <<>> => reads' = reads + 1]_vars

\* a later call answered from the cache with a copy of a table with rows
C6_Witness ==
    /\ pc = "rendered"
    /\ dfObj = "copy"
    /\ reads = 1
    /\ Len(df) = MaxAppRows
    /\ df = Frame(source.rows)
    /\ top_n # <<DefaultTopN>>

\* C7 as claimed: a source that is missing, malformed or without data rows
\* makes load_data raise, return no dataset and cache nothing.
C7_RejectsMissingMalformedAndNoRows ==
    (Ran /\ (source.kind # "table" \/ source.rows = <<>>)) =>
        /\ pc = "failed"
        /\ err # ""
        /\ cache = <<>>

\* C7 as amended: a source that is missing, has no bytes or is malformed
\* makes load_data raise, return no dataset and cache nothing; a source with
\* a header, with or without data rows, is returned as a dataset and cached.
C7_RejectsMissingEmptyMalformedOnly ==
    Ran =>
        IF source.kind # "table"
           THEN /\ pc = "failed"
                /\ err \in {"FileNotFoundError", "EmptyDataError", "ParserError"}
                /\ cache = <<>>
                /\ df = <<>>
                /\ dfObj = "none"
           ELSE /\ pc = "rendered"
                /\ err = ""
                /\ cache = <<Frame(source.rows)>>
                /\ df = Frame(source.rows)

\* the load has failed twice and nothing is cached
C7_Witness ==
    /\ pc = "failed"
    /\ source.kind = "malformed"
    /\ reads = 2
    /\ cache = <<>>

\* C8: after any sequence of script runs, with any widget values, df has the
\* rows, in the order and with the values, that the load gave it.
C8_DatasetUnchanged ==
    pc = "rendered" =>
        /\ df = Frame(source.rows)
        /\ cache = <<Frame(source.rows)>>

\* a rerun whose ranking reordered rows and whose map projection dropped one
C8_Witness ==
    /\ pc = "rendered"
    /\ dfObj = "copy"
    /\ Len(filtered_sorted) >= 2
    /\ filtered_sorted[1].label > filtered_sorted[2].label
    /\ Len(map_df) < Len(df)

\* C9: a run whose continent, metric and topN are those of an earlier run
\* gives the ranking the earlier run gave, whatever happened in between.
C9_SameParametersSameRanking ==
    (/\ pc = "rendered"
     /\ memo # <<>>
     /\ memo[1].continent = continent
     /\ memo[1].metric = metric
     /\ memo[1].top_n = top_n) => memo[1].ranked = filtered_sorted

\* an earlier ranking with two rows of equal metric value, under an argsort
\* that does not keep them in input order, is repeated with other axes
C9_Witness ==
    /\ pc = "rendered"
    /\ memo # <<>>
    /\ memo[1].continent = continent
    /\ memo[1].metric = metric
    /\ memo[1].top_n = top_n
    /\ tieOrder = "reversed"
    /\ Len(filtered_sorted) >= 2
    /\ filtered_sorted[1].row = filtered_sorted[2].row
    /\ x_axis # <<XOptions[1]>>

ContinentValues == {df[k].row["Continent"] : k \in DOMAIN df}

ValidMetricAndTopN ==
    /\ Present(metric) /\ metric[1] \in Range(MetricOptions)
    /\ Present(top_n) /\ top_n[1] \in MinTopN..MaxTopN
    /\ dfObj = "read" => top_n = <<DefaultTopN>>

\* C10 as claimed: in every run the continent is a value of the dataset's
\* Continent column, the metric is one of the four metric columns, topN is
\* in [5, 50] and 10 before any interaction, and on a dataset with rows the
\* filter matches at least one row.
C10_ParametersValid ==
    pc = "rendered" =>
        /\ continent \in ContinentValues
        /\ ValidMetricAndTopN
        /\ df # <<>> => Matching # {}

\* C10 as amended: the same, except that on a dataset without rows the
\* continent is None and the ranking is empty.
C10_ParametersValidOrNoContinent ==
    pc = "rendered" =>
        /\ ValidMetricAndTopN
        /\ IF df = <<>>
              THEN continent = None /\ filtered_sorted = <<>>
              ELSE /\ continent \in ContinentValues
                   /\ Matching # {}
                   /\ filtered_sorted # <<>>

\* every sidebar widget has been moved off its first value
C10_Witness ==
    /\ pc = "rendered"
    /\ df # <<>>
    /\ continent # df[1].row["Continent"]
    /\ metric # <<MetricOptions[1]>>
    /\ top_n = <<MaxTopN>>

====
